---- MODULE Spec2Model ----
(***************************************************************************)
(* pyboggle: the word tree (pyboggle/words.py) and the Boggle board with   *)
(* its pruned simple-path enumerator, solver, scorer and word attempt      *)
(* (pyboggle/board.py), as a state machine.                                *)
(*                                                                         *)
(* A str is a tuple of one-character strings; a Dice is its board index    *)
(* (row-major, 0 .. 15) and dice[c] is its face.  The tiles of one tile    *)
(* set are pairwise different tuples, so the frozen dataclass' equality is *)
(* identity of position.                                                   *)
(***************************************************************************)
EXTENDS Integers, Sequences, FiniteSets, TLC

(***************************************************************************)
(* Bounds of the model and the inputs drawn in Init.                       *)
(***************************************************************************)
MaxWords == 2
MaxCalls == 2

Rows == 4
Cols == 4

\* A face as a str: "Qu" is two characters, every other face is one.
Face(s) == IF s = "Qu" THEN <<"Q", "u">> ELSE <<s>>

\* The lines of the word-list file, in file order.
CandidateWords ==
    << <<"A","B","C","D","E","F","G","H","I","J","K","L","M","N","O">>,
       <<"A","B","C","D","E","F","G","H","I","J","K","L","M","N","O","P">>,
       <<"A","C","T">>,
       <<"A","T">>,
       <<"C","A","T">>,
       <<"C","A","T","S">> >>

CandidateSet == {CandidateWords[i] : i \in 1 .. Len(CandidateWords)}

WordLists == {ws \in SUBSET CandidateSet : Cardinality(ws) <= MaxWords}

\* The words handed to exists, scorer and attempt_word.
QueryWords ==
    CandidateSet \cup
    { <<>>, <<"A">>, <<"A","B">>, <<"C","A">>, <<"T","A","C">>,
      <<"C","A","T","S","X">>,
      <<"Q","u","A","T">>,
      <<"A","T","C","A","T","S">>,
      <<"C","A","T","C","A","T","S">>,
      <<"A","B","C","D","E","F","G","H">> }

\* The sets of words handed to scorer.
QuerySets == {{}} \cup {{v, w} : v, w \in QueryWords}

\* Boards in row-major order after the shuffle of _create_dice: every die
\* shows one face of a tile of its own. BoardCats and BoardSnake are of
\* CLASSIC_TILES, BoardDense is of NEW_TILES.
BoardCats ==
    << "C", "A", "T", "S",
       "Qu","Z", "H", "X",
       "W", "F", "K", "V",
       "N", "P", "G", "Y" >>

BoardDense ==
    << "C", "A", "T", "S",
       "A", "T", "C", "A",
       "X", "S", "Y", "T",
       "W", "R", "U", "Z" >>

BoardSnake ==
    << "A", "B", "C", "D",
       "H", "G", "F", "E",
       "I", "J", "K", "L",
       "P", "O", "N", "M" >>

Boards == {BoardCats, BoardDense, BoardSnake}

(***************************************************************************)
(* Helpers on sequences.                                                   *)
(***************************************************************************)
Range(s) == {s[i] : i \in 1 .. Len(s)}

Contains(s, e) == \E i \in 1 .. Len(s) : s[i] = e

Front(s) == SubSeq(s, 1, Len(s) - 1)

Last(s) == s[Len(s)]

IsPrefixOf(p, w) == Len(p) <= Len(w) /\ SubSeq(w, 1, Len(p)) = p

(***************************************************************************)
(* words.py                                                                *)
(***************************************************************************)
None == -2
NIL == -1
root == 0

\* _file_lines_iterator: the lines of the file that are in the word list.
file_lines_iterator(ws) == SelectSeq(CandidateWords, LAMBDA w : w \in ws)

\* A DiGraph whose nodes are NIL, root and 1 .. n: node k's attribute and
\* successors are source[k + 1] and succ[k + 1]; NIL has source "NIL" and no
\* successor.
NewTree == [source |-> << "None" >>, succ |-> << <<>> >>]

TreeLen(tree) == Len(tree.source) + 1

Source(tree, node) == IF node = NIL THEN "NIL" ELSE tree.source[node + 1]

Succ(tree, node) == IF node = NIL THEN <<>> ELSE tree.succ[node + 1]

out_degree(tree, node) == Len(Succ(tree, node))

add_node(tree, label) ==
    [source |-> Append(tree.source, label), succ |-> Append(tree.succ, <<>>)]

tree_add_edge(tree, u, v) ==
    IF Contains(tree.succ[u + 1], v) THEN tree
    ELSE [tree EXCEPT !.succ[u + 1] = Append(@, v)]

RECURSIVE DistinctHeads(_)
DistinctHeads(paths) ==
    IF paths = <<>> THEN <<>>
    ELSE LET rest == DistinctHeads(Front(paths))
             p == Last(paths)
         IN  IF p = <<>> \/ Contains(rest, p[1]) THEN rest ELSE Append(rest, p[1])

RECURSIVE Tails(_, _)
Tails(paths, head) ==
    IF paths = <<>> THEN <<>>
    ELSE LET p == Head(paths)
         IN  IF p # <<>> /\ p[1] = head
             THEN <<Tail(p)>> \o Tails(Tail(paths), head)
             ELSE Tails(Tail(paths), head)

\* networkx' prefix_tree: get_children joins a node at which a path ends to
\* NIL, then every distinct head becomes a new node named len(tree) - 1,
\* depth first.
RECURSIVE get_children(_, _, _)
RECURSIVE add_children(_, _, _, _)
get_children(tree, parent, paths) ==
    CHOOSE grown \in
        { add_children(joined, parent, paths, DistinctHeads(paths)) :
          joined \in {IF Contains(paths, <<>>) THEN tree_add_edge(tree, parent, NIL) ELSE tree} } :
        TRUE

add_children(tree, parent, paths, heads) ==
    IF heads = <<>> THEN tree
    ELSE LET new_name == TreeLen(tree) - 1
         IN  CHOOSE grown \in
                 { add_children(below, parent, paths, Tail(heads)) :
                   below \in { get_children(added, new_name, Tails(paths, Head(heads))) :
                               added \in {tree_add_edge(add_node(tree, Head(heads)), parent, new_name)} } } :
                 TRUE

prefix_tree(paths) == get_children(NewTree, root, paths)

prefix_tree_from_filepath(ws) == prefix_tree(file_lines_iterator(ws))

\* WordTree(wordlist_filepath): self.tree.
WordTree(ws) == prefix_tree_from_filepath(ws)

\* WordTree(wordlist_filepath, filter=...) as board.py constructs it. The
\* constructor of words.py takes no filter; the tree is taken to be the
\* dictionary trie built once from the word list.
WordTreeOfBoard(ws) == WordTree(ws)

\* Python's truth value of an Optional[int].
Truthy(v) == v # None /\ v # 0

RECURSIVE _search_path(_, _, _)
_search_path(tree, word, node) ==
    IF Len(word) = 0 THEN node
    ELSE LET matching == SelectSeq(Succ(tree, node), LAMBDA k : Source(tree, k) = word[1])
         IN  CHOOSE found \in
                 { IF ~Truthy(next_node) THEN None
                   ELSE _search_path(tree, Tail(word), next_node) :
                   next_node \in {IF matching = <<>> THEN None ELSE Head(matching)} } : TRUE

\* WordTree.search_path(word) as board.py calls it. words.py defines no
\* method of that name; it is taken to be the prefix query on the trie: the
\* walk from the root, one face at a time, None as soon as no child matches
\* and the node reached once the word is consumed.
search_path(tree, word) == _search_path(tree, word, root)

exists(tree, word) ==
    IF Len(word) < 3 THEN FALSE
    ELSE LET node_label == _search_path(tree, word, root)
         IN  IF node_label = None THEN FALSE
             ELSE out_degree(tree, node_label) = 0

(***************************************************************************)
(* board.py: the board and its adjacency graph.                            *)
(***************************************************************************)
Cells == 0 .. (Rows * Cols - 1)

\* _create_dice, with the shuffle and each die's cached face already drawn.
create_dice(board) == [c \in Cells |-> Face(board[c + 1])]

\* Graph.add_edge on the adjacency dicts, which keep insertion order.
add_edge(adj, u, v) ==
    LET a1 == IF Contains(adj[u], v) THEN adj ELSE [adj EXCEPT ![u] = Append(@, v)]
    IN  IF Contains(a1[v], u) THEN a1 ELSE [a1 EXCEPT ![v] = Append(@, u)]

\* step_adjacency without the test for a negative index, which Python counts
\* from the end of the list.
step_adjacency_wrap(adj, c, offset) ==
    LET adjusted_x == (c % Cols) + offset[1]
        adjusted_y == (c \div Cols) + offset[2]
        adj_dice == ((adjusted_y + Rows) % Rows) * Cols + ((adjusted_x + Cols) % Cols)
    IN  IF adjusted_y >= Rows \/ adjusted_x >= Cols THEN adj
        ELSE IF c # adj_dice THEN add_edge(adj, c, adj_dice)
        ELSE adj

\* One pass of the loop over adjusted_idxs for the die at index c. The
\* IndexError of self.dice[adjusted_y][adjusted_x] is an index past the last
\* row or column.
step_adjacency(adj, c, offset) ==
    LET adjusted_x == (c % Cols) + offset[1]
        adjusted_y == (c \div Cols) + offset[2]
        adj_dice == adjusted_y * Cols + adjusted_x
    IN  IF adjusted_y < 0 \/ adjusted_x < 0 THEN adj
        ELSE IF adjusted_y >= Rows \/ adjusted_x >= Cols THEN adj
        ELSE IF c # adj_dice THEN add_edge(adj, c, adj_dice)
        ELSE adj

\* The set adjusted_idxs of the die at index c in its iteration order, as
\* offsets (i, j) from the die. The order is that of CPython's set of the
\* tuples (x + i, y + j): the hash of a tuple of ints has no seed, so every
\* run gives the same order, one per die.
adjusted_idxs(c) ==
    << << <<0,1>>, <<-1,-1>>, <<0,0>>, <<-1,1>>, <<1,1>>, <<1,-1>>, <<-1,0>>, <<1,0>>, <<0,-1>> >>,
       << <<-1,1>>, <<1,-1>>, <<1,1>>, <<-1,0>>, <<0,1>>, <<1,0>>, <<0,-1>>, <<0,0>>, <<-1,-1>> >>,
       << <<0,-1>>, <<1,-1>>, <<0,1>>, <<1,1>>, <<-1,1>>, <<0,0>>, <<-1,-1>>, <<1,0>>, <<-1,0>> >>,
       << <<-1,-1>>, <<1,0>>, <<0,-1>>, <<-1,1>>, <<0,1>>, <<-1,0>>, <<0,0>>, <<1,-1>>, <<1,1>> >>,
       << <<0,0>>, <<1,1>>, <<0,-1>>, <<-1,0>>, <<1,0>>, <<-1,-1>>, <<0,1>>, <<1,-1>>, <<-1,1>> >>,
       << <<-1,0>>, <<0,1>>, <<1,0>>, <<-1,-1>>, <<0,0>>, <<1,-1>>, <<-1,1>>, <<1,1>>, <<0,-1>> >>,
       << <<-1,1>>, <<0,0>>, <<1,0>>, <<-1,0>>, <<0,-1>>, <<1,-1>>, <<0,1>>, <<-1,-1>>, <<1,1>> >>,
       << <<1,-1>>, <<-1,0>>, <<0,0>>, <<-1,-1>>, <<1,1>>, <<0,-1>>, <<-1,1>>, <<0,1>>, <<1,0>> >>,
       << <<0,-1>>, <<1,0>>, <<-1,-1>>, <<1,-1>>, <<0,1>>, <<0,0>>, <<-1,1>>, <<-1,0>>, <<1,1>> >>,
       << <<-1,-1>>, <<0,0>>, <<1,-1>>, <<0,-1>>, <<-1,1>>, <<1,1>>, <<-1,0>>, <<1,0>>, <<0,1>> >>,
       << <<-1,0>>, <<0,-1>>, <<1,-1>>, <<-1,-1>>, <<0,1>>, <<1,1>>, <<0,0>>, <<1,0>>, <<-1,1>> >>,
       << <<-1,-1>>, <<1,1>>, <<0,-1>>, <<1,0>>, <<-1,1>>, <<0,1>>, <<-1,0>>, <<0,0>>, <<1,-1>> >>,
       << <<1,-1>>, <<0,1>>, <<-1,1>>, <<0,0>>, <<1,1>>, <<0,-1>>, <<-1,0>>, <<-1,-1>>, <<1,0>> >>,
       << <<1,1>>, <<0,-1>>, <<-1,1>>, <<-1,0>>, <<0,1>>, <<1,0>>, <<-1,-1>>, <<1,-1>>, <<0,0>> >>,
       << <<0,1>>, <<-1,-1>>, <<1,1>>, <<-1,1>>, <<0,0>>, <<1,0>>, <<0,-1>>, <<1,-1>>, <<-1,0>> >>,
       << <<1,1>>, <<-1,1>>, <<0,1>>, <<1,0>>, <<1,-1>>, <<-1,0>>, <<0,0>>, <<-1,-1>>, <<0,-1>> >> >>[c + 1]

\* The loop over adjusted_idxs for the die at index c. (Binding the graph
\* so far in a set makes TLC evaluate it once, before the next pass.)
RECURSIVE add_neighbours(_, _, _)
add_neighbours(adj, c, offsets) ==
    IF offsets = <<>> THEN adj
    ELSE CHOOSE graph \in
             { add_neighbours(next, c, Tail(offsets)) :
               next \in {step_adjacency(adj, c, Head(offsets))} } : TRUE

\* The loop over the dice, row by row.
RECURSIVE add_dice_from(_, _)
add_dice_from(adj, c) ==
    IF c >= Rows * Cols THEN adj
    ELSE CHOOSE graph \in
             { add_dice_from(next, c + 1) :
               next \in {add_neighbours(adj, c, adjusted_idxs(c))} } : TRUE

_create_adjacency_graph == add_dice_from([c \in Cells |-> <<>>], 0)

\* "".join(dice.face for dice in path)
RECURSIVE join_faces(_, _)
join_faces(dice, path) ==
    IF path = <<>> THEN <<>>
    ELSE dice[Head(path)] \o join_faces(dice, Tail(path))

\* len(self.adjacency): the dice that add_edge made nodes of the graph.
graph_len(adj) == Cardinality({c \in DOMAIN adj : adj[c] # <<>>})

\* networkx' is_simple_path(G, nodes), every die being a node of G.
is_simple_path(adj, nodes) ==
    IF Len(nodes) = 0 THEN FALSE
    ELSE IF Len(nodes) = 1 THEN adj[nodes[1]] # <<>>
    ELSE IF Cardinality(Range(nodes)) # Len(nodes) THEN FALSE
    ELSE \A i \in 1 .. Len(nodes) - 1 : Contains(adj[nodes[i]], nodes[i + 1])

\* itertools.product(*matching_dice), matching_dice[i] being the dice whose
\* face is the i-th character of the word.
RECURSIVE path_permutations(_, _)
path_permutations(dc, word) ==
    IF word = <<>> THEN {<<>>}
    ELSE LET matching == {c \in Cells : dc[c] = <<Last(word)>>}
         IN  {Append(p, c) : p \in path_permutations(dc, Front(word)), c \in matching}

_is_valid_path(dc, adj, word) ==
    \E path \in path_permutations(dc, word) : is_simple_path(adj, path)

\* The scoring table, None for a length it has no key for.
scoring(length) ==
    CASE length = 3 -> 1
      [] length = 4 -> 1
      [] length = 5 -> 2
      [] length = 6 -> 3
      [] length = 7 -> 5
      [] length = 8 -> 11
      [] OTHER -> None

Min(a, b) == IF a <= b THEN a ELSE b

RECURSIVE total_points(_)
total_points(words) ==
    IF words = {} THEN 0
    ELSE LET word == CHOOSE w \in words : TRUE
         IN  scoring(Min(8, Len(word))) + total_points(words \ {word})

\* scorer without its assert.
scorer_no_assert(words) == [raised |-> FALSE, value |-> total_points(words)]

\* scorer on a set of words: the assert fails on the first word shorter than
\* 3 the loop meets, whatever the order of the set.
scorer(words) ==
    IF \E word \in words : ~(Len(word) >= 3)
    THEN [raised |-> TRUE, value |-> None]
    ELSE [raised |-> FALSE, value |-> total_points(words)]

\* attempt_word: scorer is handed the str and makes a set of it.
attempt_word(dc, adj, tree, word) ==
    IF _is_valid_path(dc, adj, word) /\ exists(tree, word)
    THEN scorer({word})
    ELSE [raised |-> FALSE, value |-> None]

\* itertools.combinations(dice, 2), one pair after the other.
FirstCombination == <<0, 1>>

HasNextCombination(pair) == pair[1] + 1 < Rows * Cols - 1 \/ pair[2] + 1 < Rows * Cols

NextCombination(pair) ==
    IF pair[2] + 1 < Rows * Cols THEN <<pair[1], pair[2] + 1>>
    ELSE <<pair[1] + 1, pair[1] + 2>>

(***************************************************************************)
(* State.                                                                  *)
(*   dice, adjacency, word_list, word_tree   the BoggleBoard               *)
(*   call          the running call: "none", "solver", "paths"             *)
(*   words, combo, leg      solver's locals: the word set, the pair of     *)
(*                 dice, 1 for paths and 2 for reversed_paths              *)
(*   source, target, visited, stack, child, at                             *)
(*                 the generator _all_simple_paths_graph: its arguments    *)
(*                 and locals (an iterator is the sequence it has left)    *)
(*                 and where it stands: "head" of the while loop,          *)
(*                 suspended at the yield of line 162 ("yield_word") or    *)
(*                 172 ("yield_cutoff"), or "stop" when it has returned    *)
(*   yielded       the path handed to the consumer, <<>> once taken        *)
(*   yields        history: the paths the running generator has yielded    *)
(*   args, calls, first_yields                                             *)
(*                 a caller that lists the generator's paths for the same  *)
(*                 arguments several times, and the first listing          *)
(*   result        what the last finished call returned                    *)
(***************************************************************************)
VARIABLES dice, adjacency, word_list, word_tree,
          call, words, combo, leg,
          source, target, visited, stack, child, at,
          yielded, yields,
          args, calls, first_yields,
          result

board == <<dice, adjacency, word_list, word_tree>>
solver_locals == <<words, combo, leg>>
generator == <<source, target, visited, stack, child, at, yielded, yields>>
lister == <<args, calls, first_yields>>

vars == <<board, call, solver_locals, generator, lister, result>>

NoResult == [op |-> "none"]

visited_word == join_faces(dice, visited)

cutoff == graph_len(adjacency) - 1

InitBoard ==
    /\ \E b \in Boards : dice = create_dice(b)
    /\ adjacency = _create_adjacency_graph
    /\ word_list \in WordLists
    /\ word_tree = WordTreeOfBoard(word_list)
    /\ call = "none"
    /\ words = {}
    /\ combo = FirstCombination
    /\ leg = 1
    /\ source = 0
    /\ target = 0
    /\ visited = <<>>
    /\ stack = <<>>
    /\ child = None
    /\ at = "stop"
    /\ yielded = <<>>
    /\ yields = <<>>
    /\ calls = 0
    /\ first_yields = <<>>
    /\ result = NoResult

Init == InitBoard /\ args = <<0, 0>>

InitPaths == InitBoard /\ args \in Cells \X Cells

(***************************************************************************)
(* _all_simple_paths_graph                                                 *)
(***************************************************************************)
\* Lines 140-143: the generator's locals before the loop.
StartPaths(s, t) ==
    /\ source' = s
    /\ target' = t
    /\ visited' = <<s>>
    /\ stack' = <<adjacency[s]>>
    /\ child' = None
    /\ at' = "head"
    /\ yielded' = <<>>
    /\ yields' = <<>>

AtHead == call # "none" /\ at = "head" /\ yielded = <<>>

Pruned == visited_word # <<>> /\ search_path(word_tree, visited_word) = None

\* stack.pop(); visited.popitem()
Backtrack ==
    /\ stack' = Front(stack)
    /\ visited' = Front(visited)

\* The last iterator read and not advanced.
PulledNothing == stack

\* stack with next(children, None) taken from its last iterator.
Pulled == [stack EXCEPT ![Len(stack)] = Tail(@)]

\* Lines 163-167 without the popitem of line 167.
DescendNoPopitem(stk, c) ==
    LET grown == Append(visited, c)
    IN  IF {target} \ Range(grown) # {}
        THEN /\ visited' = grown
             /\ stack' = Append(stk, adjacency[c])
        ELSE /\ visited' = grown
             /\ stack' = stk

\* Lines 163-167 for child c, the iterators being stk.
Descend(stk, c) ==
    LET grown == Append(visited, c)
    IN  IF {target} \ Range(grown) # {}
        THEN /\ visited' = grown
             /\ stack' = Append(stk, adjacency[c])
        ELSE /\ visited' = Front(grown)
             /\ stack' = stk

\* Line 160 without the search of line 161.
WordFoundUnsearched(c) == c = target

\* Line 161: the target is the child and the word with it is found.
WordFound(c) ==
    c = target /\ Truthy(search_path(word_tree, visited_word \o dice[c]))

\* while stack: is false, the generator returns.
PathsStop ==
    /\ AtHead
    /\ stack = <<>>
    /\ at' = "stop"
    /\ UNCHANGED <<board, call, solver_locals, lister, result>>
    /\ UNCHANGED <<source, target, visited, stack, child, yielded, yields>>

\* Lines 146-151: the early exit.
PathsPrune ==
    /\ AtHead
    /\ stack # <<>>
    /\ Pruned
    /\ Backtrack
    /\ UNCHANGED <<board, call, solver_locals, lister, result>>
    /\ UNCHANGED <<source, target, child, at, yielded, yields>>

\* Lines 152-156: the iterator is exhausted.
PathsNoChild ==
    /\ AtHead
    /\ stack # <<>>
    /\ ~Pruned
    /\ Last(stack) = <<>>
    /\ child' = None
    /\ Backtrack
    /\ UNCHANGED <<board, call, solver_locals, lister, result>>
    /\ UNCHANGED <<source, target, at, yielded, yields>>

\* Lines 157-159: the child is on the path already.
PathsSkip ==
    /\ AtHead
    /\ stack # <<>>
    /\ ~Pruned
    /\ Last(stack) # <<>>
    /\ Len(visited) < cutoff
    /\ Contains(visited, Head(Last(stack)))
    /\ child' = Head(Last(stack))
    /\ stack' = Pulled
    /\ UNCHANGED <<board, call, solver_locals, lister, result>>
    /\ UNCHANGED <<source, target, visited, at, yielded, yields>>

\* Lines 160-162: the generator yields and is suspended.
PathsYieldWord ==
    /\ AtHead
    /\ stack # <<>>
    /\ ~Pruned
    /\ Last(stack) # <<>>
    /\ Len(visited) < cutoff
    /\ ~Contains(visited, Head(Last(stack)))
    /\ WordFound(Head(Last(stack)))
    /\ child' = Head(Last(stack))
    /\ stack' = Pulled
    /\ yielded' = Append(visited, Head(Last(stack)))
    /\ yields' = Append(yields, Append(visited, Head(Last(stack))))
    /\ at' = "yield_word"
    /\ UNCHANGED <<board, call, solver_locals, lister, result>>
    /\ UNCHANGED <<source, target, visited>>

\* Lines 160-167 when nothing is yielded.
PathsDescend ==
    /\ AtHead
    /\ stack # <<>>
    /\ ~Pruned
    /\ Last(stack) # <<>>
    /\ Len(visited) < cutoff
    /\ ~Contains(visited, Head(Last(stack)))
    /\ ~WordFound(Head(Last(stack)))
    /\ child' = Head(Last(stack))
    /\ Descend(Pulled, Head(Last(stack)))
    /\ UNCHANGED <<board, call, solver_locals, lister, result>>
    /\ UNCHANGED <<source, target, at, yielded, yields>>

\* Lines 163-167 when the generator is resumed after line 162.
PathsResumeWord ==
    /\ call # "none"
    /\ at = "yield_word"
    /\ yielded = <<>>
    /\ Descend(stack, child)
    /\ at' = "head"
    /\ UNCHANGED <<board, call, solver_locals, lister, result>>
    /\ UNCHANGED <<source, target, child, yielded, yields>>

\* Lines 168-174: set(children) uses the iterator up; the loop over the one
\* target yields at most once.
PathsCutoff ==
    /\ AtHead
    /\ stack # <<>>
    /\ ~Pruned
    /\ Last(stack) # <<>>
    /\ ~(Len(visited) < cutoff)
    /\ child' = Head(Last(stack))
    /\ IF ({target} \cap Range(Last(stack))) \ Range(visited) # {}
       THEN /\ stack' = [stack EXCEPT ![Len(stack)] = <<>>]
            /\ yielded' = Append(visited, target)
            /\ yields' = Append(yields, Append(visited, target))
            /\ at' = "yield_cutoff"
            /\ UNCHANGED visited
       ELSE /\ Backtrack
            /\ UNCHANGED <<at, yielded, yields>>
    /\ UNCHANGED <<board, call, solver_locals, lister, result>>
    /\ UNCHANGED <<source, target>>

\* Lines 173-174 when the generator is resumed after line 172.
PathsResumeCutoff ==
    /\ call # "none"
    /\ at = "yield_cutoff"
    /\ yielded = <<>>
    /\ Backtrack
    /\ at' = "head"
    /\ UNCHANGED <<board, call, solver_locals, lister, result>>
    /\ UNCHANGED <<source, target, child, yielded, yields>>

Paths ==
    \/ PathsStop
    \/ PathsPrune
    \/ PathsNoChild
    \/ PathsSkip
    \/ PathsYieldWord
    \/ PathsDescend
    \/ PathsResumeWord
    \/ PathsCutoff
    \/ PathsResumeCutoff

(***************************************************************************)
(* solver                                                                  *)
(***************************************************************************)
\* Lines 202-208 for the first pair of dice.
SolverCall ==
    /\ call = "none"
    /\ call' = "solver"
    /\ words' = {}
    /\ combo' = FirstCombination
    /\ leg' = 1
    /\ StartPaths(FirstCombination[1], FirstCombination[2])
    /\ result' = NoResult
    /\ UNCHANGED <<board, lister>>

\* Lines 209-214: the body of the loop over all_paths.
SolverTake ==
    /\ call = "solver"
    /\ yielded # <<>>
    /\ words' = IF exists(word_tree, join_faces(dice, yielded))
                THEN words \cup {join_faces(dice, yielded)}
                ELSE words
    /\ yielded' = <<>>
    /\ UNCHANGED <<board, call, combo, leg, lister, result>>
    /\ UNCHANGED <<source, target, visited, stack, child, at, yields>>

\* itertools.chain goes on to reversed_paths.
SolverReversed ==
    /\ call = "solver"
    /\ at = "stop"
    /\ leg = 1
    /\ leg' = 2
    /\ StartPaths(combo[2], combo[1])
    /\ UNCHANGED <<board, call, words, combo, lister, result>>

\* The next pair of itertools.combinations.
SolverNextPair ==
    /\ call = "solver"
    /\ at = "stop"
    /\ leg = 2
    /\ HasNextCombination(combo)
    /\ combo' = NextCombination(combo)
    /\ leg' = 1
    /\ StartPaths(NextCombination(combo)[1], NextCombination(combo)[2])
    /\ UNCHANGED <<board, call, words, lister, result>>

\* Lines 215-217: the board score is printed and the words returned.
SolverReturn ==
    /\ call = "solver"
    /\ at = "stop"
    /\ leg = 2
    /\ ~HasNextCombination(combo)
    /\ call' = "none"
    /\ result' = [op |-> "solver", value |-> words, score |-> scorer(words)]
    /\ UNCHANGED <<board, solver_locals, generator, lister>>

(***************************************************************************)
(* exists, scorer and attempt_word, called on their own.                   *)
(***************************************************************************)
\* No call is running and the last one was none of these three.
Idle == call = "none" /\ result.op \in {"none", "solver"}

Exists ==
    /\ Idle
    /\ \E word \in QueryWords :
           result' = [op |-> "exists", arg |-> word, value |-> exists(word_tree, word)]
    /\ UNCHANGED <<board, call, solver_locals, generator, lister>>

Scorer ==
    /\ Idle
    /\ \E ws \in QuerySets :
           result' = [op |-> "scorer", arg |-> ws] @@ scorer(ws)
    /\ UNCHANGED <<board, call, solver_locals, generator, lister>>

AttemptWord ==
    /\ Idle
    /\ \E word \in QueryWords :
           result' = [op |-> "attempt_word", arg |-> word]
                         @@ attempt_word(dice, adjacency, word_tree, word)
    /\ UNCHANGED <<board, call, solver_locals, generator, lister>>

Next ==
    \/ SolverCall
    \/ Paths
    \/ SolverTake
    \/ SolverReversed
    \/ SolverNextPair
    \/ SolverReturn
    \/ Exists
    \/ Scorer
    \/ AttemptWord

Spec == Init /\ [][Next]_vars

(***************************************************************************)
(* A caller that lists the paths of one pair of dice, MaxCalls times.      *)
(***************************************************************************)
ListCall ==
    /\ call = "none"
    /\ calls < MaxCalls
    /\ call' = "paths"
    /\ StartPaths(args[1], args[2])
    /\ result' = NoResult
    /\ UNCHANGED <<board, solver_locals, lister>>

ListTake ==
    /\ call = "paths"
    /\ yielded # <<>>
    /\ yielded' = <<>>
    /\ UNCHANGED <<board, call, solver_locals, lister, result>>
    /\ UNCHANGED <<source, target, visited, stack, child, at, yields>>

ListReturn ==
    /\ call = "paths"
    /\ at = "stop"
    /\ call' = "none"
    /\ calls' = calls + 1
    /\ first_yields' = IF calls = 0 THEN yields ELSE first_yields
    /\ result' = [op |-> "paths", value |-> yields]
    /\ UNCHANGED <<board, solver_locals, generator, args>>

NextPaths ==
    \/ ListCall
    \/ Paths
    \/ ListTake
    \/ ListReturn

SpecPaths == InitPaths /\ [][NextPaths]_vars

(***************************************************************************)
(* What the claims speak of, stated without the code's own operators.      *)
(***************************************************************************)
Abs(n) == IF n < 0 THEN -n ELSE n

\* Two different cells at Chebyshev distance 1.
Adjacent(a, b) ==
    /\ a # b
    /\ Abs((a % Cols) - (b % Cols)) <= 1
    /\ Abs((a \div Cols) - (b \div Cols)) <= 1

NoRepeat(p) == \A i, j \in 1 .. Len(p) : i # j => p[i] # p[j]

IsSimpleBoardPath(p) ==
    /\ Len(p) >= 1
    /\ \A i \in 1 .. Len(p) : p[i] \in Cells
    /\ NoRepeat(p)
    /\ \A i \in 1 .. Len(p) - 1 : Adjacent(p[i], p[i + 1])

\* A complete dictionary word: a line of the word list of 3 letters or more.
IsDictionaryWord(w) == Len(w) >= 3 /\ w \in word_list

\* A valid dictionary prefix: the beginning of some line of the word list.
IsDictionaryPrefix(p) == \E w \in word_list : IsPrefixOf(p, w)

\* The simple paths of the board whose faces spell a beginning of w: those
\* of paths, and every such path that goes on from one of them.
RECURSIVE SpellingPaths(_, _)
SpellingPaths(paths, w) ==
    IF paths = {} THEN {}
    ELSE paths \cup
         SpellingPaths(
             UNION { { Append(p, c) :
                       c \in { d \in Cells :
                                 /\ ~Contains(p, d)
                                 /\ Adjacent(Last(p), d)
                                 /\ IsPrefixOf(join_faces(dice, p) \o dice[d], w) } } :
                     p \in paths },
             w)

\* Some simple path between two different cells spells w.
SpelledOnBoard(w) ==
    \E p \in SpellingPaths({<<c>> : c \in {d \in Cells : IsPrefixOf(dice[d], w)}}, w) :
        Len(p) >= 2 /\ join_faces(dice, p) = w

\* The points of the scoring table for a word of n >= 3 letters.
TablePoints(n) ==
    IF n = 3 \/ n = 4 THEN 1
    ELSE IF n = 5 THEN 2
    ELSE IF n = 6 THEN 3
    ELSE IF n = 7 THEN 5
    ELSE 11

Yielded == {yields[i] : i \in 1 .. Len(yields)}

(***************************************************************************)
(* The claims.                                                             *)
(***************************************************************************)

\* C1 (as claimed): when solver returns, every word of the word list of 3
\* letters or more that a simple path between two cells of the board spells
\* is in the set it returns.
C1_SolverComplete ==
    result.op = "solver" =>
        \A w \in word_list :
            (IsDictionaryWord(w) /\ SpelledOnBoard(w)) => w \in result.value

\* C2 (as claimed): at every point of a solve and in its result, every word
\* of the word set passes exists, is a line of the word list of 3 letters or
\* more, and is spelled by a simple path of the board. The statement has no
\* instance in any reachable state, see C2_WordSetStaysEmpty.
C2_SolverSound ==
    /\ \A w \in words :
           exists(word_tree, w) /\ IsDictionaryWord(w) /\ SpelledOnBoard(w)
    /\ result.op = "solver" => result.value = words

\* C2 (what the code does): exists accepts no word a path spells, so the
\* word set of a solve is empty at every point and in its result.
C2_WordSetStaysEmpty ==
    /\ words = {}
    /\ result.op = "solver" => result.value = {}

\* C3 (as claimed): the word of every yielded path is a complete dictionary
\* word.
C3_YieldsAreWords ==
    \A p \in Yielded : IsDictionaryWord(join_faces(dice, p))

\* C3 (amended): the word of every path yielded below the cutoff (a path of
\* at most cells - 1 dice) is the beginning of a line of the word list; of
\* a path yielded at the cutoff (all the cells) the word without the last
\* die is.
C3_YieldsArePrefixes ==
    \A p \in Yielded :
        IF Len(p) <= Rows * Cols - 1
        THEN IsDictionaryPrefix(join_faces(dice, p))
        ELSE IsDictionaryPrefix(join_faces(dice, Front(p)))

\* C3 witness: a path has been yielded below the cutoff whose word begins a
\* line of the word list and is no complete dictionary word.
C3_Witness ==
    \E p \in Yielded :
        /\ Len(p) <= Rows * Cols - 1
        /\ IsDictionaryPrefix(join_faces(dice, p))
        /\ ~IsDictionaryWord(join_faces(dice, p))

\* C4: every yielded path goes from source to target, repeats no cell and
\* joins neighbouring cells only, and no path is yielded twice by one
\* enumeration.
C4_YieldsAreSimplePaths ==
    /\ \A p \in Yielded :
           /\ p[1] = source
           /\ Last(p) = target
           /\ IsSimpleBoardPath(p)
    /\ \A i, j \in 1 .. Len(yields) : i # j => yields[i] # yields[j]

\* C4 witness: one enumeration has yielded three paths.
C4_Witness == Len(yields) >= 3 /\ at = "stop"

\* C5 (as claimed): exists answers true exactly for the lines of the word
\* list of 3 letters or more.
C5_ExistsIsMembership ==
    result.op = "exists" => (result.value <=> IsDictionaryWord(result.arg))

\* C6 (as claimed): attempt_word returns the table's points for the word's
\* length exactly when the word is a line of the word list of 3 letters or
\* more and some cells with its letters form a simple path, and None
\* otherwise.
C6_AttemptScores ==
    result.op = "attempt_word" =>
        IF /\ IsDictionaryWord(result.arg)
           /\ \E p \in path_permutations(dice, result.arg) : IsSimpleBoardPath(p)
        THEN ~result.raised /\ result.value = TablePoints(Len(result.arg))
        ELSE ~result.raised /\ result.value = None

\* C7 (as claimed): neither exists nor scorer raises on a word shorter than
\* 3 letters.
C7_ShortWordNeverRaises ==
    /\ (result.op = "exists" /\ Len(result.arg) < 3) => result.value = FALSE
    /\ (result.op = "scorer" /\ \E w \in result.arg : Len(w) < 3) => ~result.raised

\* C7 (amended): exists answers false on a word shorter than 3 letters and
\* raises nothing; scorer fails its assertion on a set that holds one, and
\* returns no points; attempt_word returns None on one and raises nothing.
C7_ShortWordOutcome ==
    /\ (result.op = "exists" /\ Len(result.arg) < 3) => result.value = FALSE
    /\ (result.op = "scorer" /\ \E w \in result.arg : Len(w) < 3) =>
           result.raised /\ result.value = None
    /\ (result.op = "scorer" /\ \A w \in result.arg : Len(w) >= 3) => ~result.raised
    /\ (result.op = "attempt_word" /\ Len(result.arg) < 3) =>
           ~result.raised /\ result.value = None

\* C7 witness: scorer has failed its assertion on a set with a word of
\* fewer than 3 letters.
C7_Witness ==
    /\ result.op = "scorer"
    /\ \E w \in result.arg : Len(w) < 3
    /\ result.raised

\* The variant of the generator: nothing once it has returned, else a
\* leading 0 and, per iterator of the stack, twice the number of children
\* it has left, plus one for the last iterator while the generator is
\* suspended at line 162 (the child is taken, lines 163-167 are to come).
Variant ==
    IF at = "stop" THEN <<>>
    ELSE <<0>> \o
         [i \in 1 .. Len(stack) |->
             2 * Len(stack[i]) + (IF at = "yield_word" /\ i = Len(stack) THEN 1 ELSE 0)]

\* a comes before b in the lexicographic order, a proper beginning of a
\* tuple coming before it: a well-founded order on the variants, whose
\* lengths and entries are bounded by the number of cells.
LexLess(a, b) ==
    \E k \in 1 .. Len(b) :
        /\ k <= Len(a) + 1
        /\ \A i \in 1 .. k - 1 : a[i] = b[i]
        /\ k = Len(a) + 1 \/ a[k] < b[k]

\* C8: every call of the generator comes to its end with the stack empty,
\* after finitely many steps and yields: while it runs some step is enabled,
\* every step of the generator makes the variant smaller and every other
\* step takes the yielded path and leaves the variant alone. A later call
\* with the same arguments yields the paths of the first call, in the same
\* order.
C8_TerminatesAndRepeats ==
    /\ [](call = "paths" => ENABLED NextPaths)
    /\ [][(call = "paths" /\ call' = "paths") =>
             \/ LexLess(Variant', Variant)
             \/ Variant' = Variant /\ yielded # <<>> /\ yielded' = <<>>]_vars
    /\ [](at = "stop" => stack = <<>>)
    /\ []((call = "none" /\ calls >= 2) => result.value = first_yields)

\* C8 witness: a second call with the arguments of a first call that yielded
\* paths has come to its end with the same paths.
C8_Witness ==
    /\ call = "none"
    /\ calls >= 2
    /\ first_yields # <<>>
    /\ result.value = first_yields

\* C9 (as claimed): of every yielded path, every beginning, the path itself
\* included, spells the beginning of a line of the word list.
C9_YieldsKeepPrefixes ==
    \A p \in Yielded :
        \A k \in 1 .. Len(p) : IsDictionaryPrefix(join_faces(dice, SubSeq(p, 1, k)))

\* C10: at the head of the loop the stack and visited have the same size,
\* each iterator holds what is left of the neighbours of the cell at its
\* depth, and visited is a simple path from source of at most cells - 1
\* dice that does not hold the target unless the target is the source.
C10_LoopInvariant ==
    (call # "none" /\ at = "head") =>
        /\ Len(stack) = Len(visited)
        /\ \A i \in 1 .. Len(stack) :
               \E k \in 0 .. Len(adjacency[visited[i]]) :
                   stack[i] = SubSeq(adjacency[visited[i]], k + 1, Len(adjacency[visited[i]]))
        /\ visited # <<>> => (visited[1] = source /\ IsSimpleBoardPath(visited))
        /\ source # target => ~Contains(visited, target)
        /\ Len(visited) <= Rows * Cols - 1

\* C10 witness: the loop is at its head with cells - 1 dice visited.
C10_Witness ==
    /\ call # "none"
    /\ at = "head"
    /\ Len(visited) = Rows * Cols - 1
    /\ Len(stack) = Len(visited)
====
